---- MODULE Spec2Model ----
(***************************************************************************)
(* Model of the Ansible Lightspeed playbook generation wizard              *)
(* (src/features/lightspeed/playbookGeneration.ts) and of the test         *)
(* environment bootstrap script (src/unnamed/part_000).                    *)
(*                                                                         *)
(* The wizard is event driven.  Every invocation of an async function or   *)
(* handler is a task; a task runs without interruption up to its next      *)
(* `await` (or up to the point where a promise it chained with `.then` is  *)
(* settled) and any other handler may run between two such steps: the      *)
(* extension host delivers several events in one turn of the event loop,   *)
(* so the synchronous prefix of another handler can run before the         *)
(* continuation of an `await` on an already settled promise.               *)
(***************************************************************************)
EXTENDS Integers, Sequences, FiniteSets, TLC

\* ------------------------------------------------------------------ bounds
MaxPanels == 2      \* calls of showPlaybookGenerationPage
MaxMsgs == 2        \* messages delivered by the webviews
MaxPage == 2        \* page numbers a `transition` message may carry

\* ------------------------------------------------------------------ values
NoId == 0                   \* wizardId === undefined
NoPage == 0                 \* a page number that is undefined
Undef == "undefined"        \* a string field that is undefined
Empty == ""                 \* the empty string (falsy, but defined)
UNKNOWN_ERROR == "An unknown error occurred."
LOGIN_ERROR == "Log in to Ansible Lightspeed to use this feature."

Falsy(s) == s \in {Undef, Empty}
Pages == 1..MaxPage

Commands == {"outline", "generateCode", "transition", "openEditor", "resetOutline"}

Msg(c, o, p, tp) ==
    [command |-> c, text |-> "t1", outline |-> o, playbook |-> p,
     generationId |-> "g1", toPage |-> tp]

NoMsg == Msg("none", Undef, Undef, NoPage)

Messages ==
    {Msg("outline", o, "p1", NoPage) : o \in {Undef, Empty, "o1"}}
    \cup {Msg("generateCode", o, Undef, NoPage) : o \in {Undef, Empty, "o1"}}
    \cup {Msg("generateCode", "o1", p, NoPage) : p \in {Empty, "p1"}}
    \cup {Msg("transition", Undef, Undef, tp) : tp \in Pages}
    \cup {Msg("openEditor", Undef, "p1", NoPage)}
    \cup {Msg("resetOutline", Undef, Undef, NoPage)}
    \cup {Msg("other", Undef, Undef, NoPage)}

\* What playbookGenerationRequest settles with: a response, an IError, or a
\* rejection (error "e1").
Resp(k, pb, o, g, m, d) ==
    [kind |-> k, playbook |-> pb, outline |-> o, generationId |-> g,
     message |-> m, detail |-> d]

NoResp == Resp("none", Undef, Undef, Undef, Undef, Undef)
OkResp == Resp("ok", "p2", "o2", "g2", Undef, Undef)
ErrResps == {Resp("error", Undef, Undef, Undef, "m1", Undef),
             Resp("error", Undef, Undef, Undef, Undef, "d1")}
Rejected == Resp("reject", Undef, Undef, Undef, "e1", Undef)
Responses == {OkResp, Rejected} \cup ErrResps

isError(r) == r.kind = "error"

\* `${response.message ?? UNKNOWN_ERROR} ${response.detail ?? ""}`
ErrorMessageOf(r) ==
    << IF r.message = Undef THEN UNKNOWN_ERROR ELSE r.message, " ",
       IF r.detail = Undef THEN Empty ELSE r.detail >>

\* ------------------------------------------------------------------- state
VARIABLES
    wizardId,           \* module variable wizardId (NoId: undefined)
    currentPage,        \* module variable currentPage (NoPage: undefined)
    panels,             \* panels[p]: "open" or "disposed"; p is also the uuid drawn for p
    tasks,              \* handler invocations: [kind, panel, msg, pc, resp]
    feedback,           \* the calls of apiInstance.feedbackRequest, in order
    posts,              \* the calls of panel.webview.postMessage
    errors,             \* the calls of vscode.window.showErrorMessage
    requests,           \* the calls of apiInstance.playbookGenerationRequest
    suggestionDetails,  \* contentMatchesProvider.suggestionDetails
    nMsgs               \* messages delivered so far

wizardVars == <<wizardId, currentPage, panels, tasks, feedback, posts, errors,
                requests, suggestionDetails, nMsgs>>

\* The bootstrap script.
VARIABLES
    bootPc,             \* the block of the script that runs next ("idle": not started)
    exitCode,           \* the script's exit status (Running: it has not exited)
    bootEnv,            \* what the script reads more than once: CI, OS, WSL, tool paths
    failing,            \* the failure checks whose condition held when reached
    ran                 \* the blocks that ran to their end

bootVars == <<bootPc, exitCode, bootEnv, failing, ran>>

vars == <<wizardVars, bootVars>>

Task(k, p, m, pc) == [kind |-> k, panel |-> p, msg |-> m, pc |-> pc, resp |-> NoResp]

\* Every invocation has its own slot: the i-th call of showPlaybookGenerationPage,
\* the onDidDispose handler of panel p, the handler of the k-th message.
ShowId(i) == i
DisposeId(p) == MaxPanels + p
MsgId(k) == 2 * MaxPanels + k
TaskIds == 1..(2 * MaxPanels + MaxMsgs)

Post(p, t, c, pb, o, g) ==
    [panel |-> p, task |-> t, command |-> c, playbook |-> pb, outline |-> o,
     generationId |-> g]

WizardInit ==
    /\ wizardId = NoId
    /\ currentPage = NoPage
    /\ panels = << >>
    /\ tasks = [t \in TaskIds |-> Task("idle", 0, NoMsg, "idle")]
    /\ feedback = << >>
    /\ posts = {}
    /\ errors = {}
    /\ requests = {}
    /\ suggestionDetails = << >>
    /\ nMsgs = 0

Running == 0 - 1
NoEnv == [CI |-> FALSE, OS |-> "linux", WSL |-> FALSE, ansible |-> "unknown",
          lint |-> "unknown"]

BootIdle ==
    /\ bootPc = "idle"
    /\ exitCode = Running
    /\ bootEnv = NoEnv
    /\ failing = {}
    /\ ran = {}

Init == WizardInit /\ BootIdle

\* ----------------------------------------------------------------- helpers
G == [wizardId |-> wizardId, currentPage |-> currentPage, feedback |-> feedback,
      errors |-> errors]

SetG(g) ==
    /\ wizardId' = g.wizardId
    /\ currentPage' = g.currentPage
    /\ feedback' = g.feedback
    /\ errors' = g.errors

NoTask == 0
Err(t, text) == [task |-> t, text |-> text]

At(t, k, pc) == t \in DOMAIN tasks /\ tasks[t].kind = k /\ tasks[t].pc = pc

\* Mutant: fromPage is read after currentPage is assigned.
sendActionEventLateFromPage(g, action, toPage, throws) ==
    IF g.wizardId # NoId
    THEN [g EXCEPT
            !.currentPage = toPage,
            !.feedback = Append(@, [wizardId |-> g.wizardId, action |-> action,
                                    fromPage |-> toPage, toPage |-> toPage]),
            !.errors = IF throws THEN @ \cup {[task |-> 0, text |-> <<"f1">>]} ELSE @]
    ELSE g

\* sendActionEvent(action, toPage) on the module variables g; throws:
\* feedbackRequest throws (error "f1"), which the catch block reports (the
\* report is sendActionEvent's own, whichever handler called it).
sendActionEvent(g, action, toPage, throws) ==
    IF g.wizardId # NoId
    THEN [g EXCEPT
            !.currentPage = toPage,
            !.feedback = Append(@, [wizardId |-> g.wizardId, action |-> action,
                                    fromPage |-> g.currentPage, toPage |-> toPage]),
            !.errors = IF throws THEN @ \cup {Err(NoTask, <<"f1">>)} ELSE @]
    ELSE g

\* contentMatch(generationId, playbook): the new value of suggestionDetails.
contentMatch(generationId, playbook) ==
    << [suggestionId |-> generationId, suggestion |-> playbook, isPlaybook |-> TRUE] >>

\* Mutant: const createOutline = !outline;
CreateOutlineIfFalsy(outline) == Falsy(outline)

\* const createOutline = outline === undefined;
CreateOutline(outline) == outline = Undef

\* Mutant: generatePlaybook calls playbookGenerationRequest a second time.
StartRequestsTwice(t, text, outline, generationId) ==
    { [task |-> t, n |-> n, text |-> text, outline |-> outline,
       createOutline |-> outline = Undef, generationId |-> generationId,
       wizardId |-> wizardId, status |-> "pending"] : n \in 1..2 }

\* generatePlaybook up to its await: the requests task t starts.
StartRequests(t, text, outline, generationId) ==
    { [task |-> t, n |-> 1, text |-> text, outline |-> outline,
       createOutline |-> CreateOutline(outline), generationId |-> generationId,
       wizardId |-> wizardId, status |-> "pending"] }

\* The requests once the await of task t has settled with response r.
Settle(t, r) ==
    { IF q.task = t /\ q.status = "pending" THEN [q EXCEPT !.status = r.kind] ELSE q
      : q \in requests }

\* Mutant: the last case of the switch is also its default.
RouteWithDefault(command) == IF command \in Commands THEN command ELSE "resetOutline"

\* switch (command): the case a message is routed to.
Route(command) == IF command \in Commands THEN command ELSE "none"

\* Mutant: the early return is missing.
GateOpen(isAuthenticated) == TRUE

\* if (!isAuthenticated) { ...; return; }
Gate(isAuthenticated) == isAuthenticated

\* Mutant: the `break` after the error response is missing.
BreaksOnThrowOnly(r) == r.kind = "reject"

\* case "generateCode": both the error response and the exception `break`.
GenerateCodeBreaks(r) == isError(r) \/ r.kind = "reject"

\* -------------------------------------------- showPlaybookGenerationPage
\* The i-th call, from the point where `await isAuthenticated()` settles (the
\* call does nothing before that await).  Nothing follows the awaits of
\* showErrorMessage and of sendActionEvent(OPEN, 1), so the call is over here.
showPlaybookGenerationPage(i) ==
    /\ tasks[ShowId(i)].kind = "idle"
    /\ \A j \in 1..(i - 1) : tasks[ShowId(j)].kind = "show"
    /\ \E isAuthenticated \in BOOLEAN, throws \in BOOLEAN :
         LET t == ShowId(i)
             kind == IF isAuthenticated THEN "authenticated" ELSE "unauthenticated"
             p == Len(panels) + 1
         IN  IF ~Gate(isAuthenticated)
             THEN /\ throws = FALSE
                  /\ errors' = errors \cup {Err(t, <<LOGIN_ERROR>>)}
                  /\ tasks' = [tasks EXCEPT ![t] = [Task("show", 0, NoMsg, "done")
                                                    EXCEPT !.resp.kind = kind]]
                  /\ UNCHANGED <<wizardId, currentPage, panels, feedback, posts>>
             ELSE /\ panels' = Append(panels, "open")
                  /\ posts' = posts \cup {Post(p, t, "init", Undef, Undef, Undef)}
                  /\ SetG(sendActionEvent([G EXCEPT !.wizardId = p], "OPEN", 1, throws))
                  /\ tasks' = [tasks EXCEPT ![t] = [Task("show", p, NoMsg, "done")
                                                    EXCEPT !.resp.kind = kind]]
    /\ UNCHANGED <<requests, suggestionDetails, nMsgs>>
    /\ UNCHANGED bootVars

\* ------------------------------------------------------- panel.onDidDispose
\* The user closes panel p: the handler runs up to its await.
UserClose(p) ==
    /\ p \in DOMAIN panels /\ panels[p] = "open"
    /\ panels' = [panels EXCEPT ![p] = "disposed"]
    /\ \E throws \in BOOLEAN :
         /\ throws => wizardId # NoId
         /\ SetG(sendActionEvent(G, "CLOSE_CANCEL", NoPage, throws))
    /\ tasks' = [tasks EXCEPT ![DisposeId(p)] = Task("dispose", p, NoMsg, "dsp")]
    /\ UNCHANGED <<posts, requests, suggestionDetails, nMsgs>>
    /\ UNCHANGED bootVars

\* `await sendActionEvent(CLOSE_CANCEL)` settles: wizardId = undefined.
DisposeResume(t) ==
    /\ At(t, "dispose", "dsp")
    /\ wizardId' = NoId
    /\ tasks' = [tasks EXCEPT ![t].pc = "done"]
    /\ UNCHANGED <<currentPage, panels, feedback, posts, errors, requests,
                   suggestionDetails, nMsgs>>
    /\ UNCHANGED bootVars

\* ------------------------------------------- panel.webview.onDidReceiveMessage
\* The handler of message m on panel p, as task t, up to its first await.
\* case "outline": generatePlaybook is called and not awaited, so the try block
\* is left as soon as the request has started.
CaseOutline(p, m, t) ==
    IF Falsy(m.outline)
    THEN /\ posts' = posts \cup {Post(p, t, "startSpinner", Undef, Undef, Undef)}
         /\ requests' = requests \cup StartRequests(t, m.text, Undef, m.generationId)
         /\ tasks' = [tasks EXCEPT ![t] = Task("message", p, m, "req")]
         /\ UNCHANGED <<wizardId, currentPage, panels, feedback, errors, suggestionDetails>>
    ELSE /\ posts' = posts \cup {Post(p, t, "outline", m.playbook, m.outline, m.generationId)}
         /\ tasks' = [tasks EXCEPT ![t] = Task("message", p, m, "done")]
         /\ UNCHANGED <<wizardId, currentPage, panels, feedback, errors, requests,
                        suggestionDetails>>

CaseGenerateCode(p, m, t) ==
    IF Falsy(m.playbook)
    THEN /\ posts' = posts \cup {Post(p, t, "startSpinner", Undef, Undef, Undef)}
         /\ requests' = requests \cup StartRequests(t, m.text, m.outline, m.generationId)
         /\ tasks' = [tasks EXCEPT ![t] = Task("message", p, m, "req")]
         /\ UNCHANGED <<wizardId, currentPage, panels, feedback, errors, suggestionDetails>>
    ELSE /\ posts' = posts \cup {Post(p, t, "playbook", m.playbook, m.outline, m.generationId)}
         /\ suggestionDetails' = contentMatch(m.generationId, m.playbook)
         /\ tasks' = [tasks EXCEPT ![t] = Task("message", p, m, "done")]
         /\ UNCHANGED <<wizardId, currentPage, panels, feedback, errors, requests>>

\* Nothing follows `await sendActionEvent(TRANSITION, toPage)`.
CaseTransition(p, m, t) ==
    /\ \E throws \in BOOLEAN :
         /\ throws => wizardId # NoId
         /\ SetG(sendActionEvent(G, "TRANSITION", m.toPage, throws))
    /\ tasks' = [tasks EXCEPT ![t] = Task("message", p, m, "done")]
    /\ UNCHANGED <<panels, posts, requests, suggestionDetails>>

CaseOpenEditor(p, m, t) ==
    /\ tasks' = [tasks EXCEPT ![t] = Task("message", p, m, "editor")]
    /\ UNCHANGED <<wizardId, currentPage, panels, feedback, posts, errors, requests,
                   suggestionDetails>>

CaseResetOutline(p, m, t) ==
    /\ tasks' = [tasks EXCEPT ![t] = Task("message", p, m, "dialog")]
    /\ UNCHANGED <<wizardId, currentPage, panels, feedback, posts, errors, requests,
                   suggestionDetails>>

CaseNone(p, m, t) ==
    /\ tasks' = [tasks EXCEPT ![t] = Task("message", p, m, "done")]
    /\ UNCHANGED <<wizardId, currentPage, panels, feedback, posts, errors, requests,
                   suggestionDetails>>

Receive(p, m) ==
    /\ p \in DOMAIN panels /\ panels[p] = "open"
    /\ nMsgs < MaxMsgs
    /\ nMsgs' = nMsgs + 1
    /\ LET t == MsgId(nMsgs + 1)
           c == Route(m.command)
       IN  CASE c = "outline" -> CaseOutline(p, m, t)
             [] c = "generateCode" -> CaseGenerateCode(p, m, t)
             [] c = "transition" -> CaseTransition(p, m, t)
             [] c = "openEditor" -> CaseOpenEditor(p, m, t)
             [] c = "resetOutline" -> CaseResetOutline(p, m, t)
             [] OTHER -> CaseNone(p, m, t)
    /\ UNCHANGED bootVars

\* playbookGenerationRequest settles with r, for an `outline` message: the
\* finally block of generatePlaybook, then the .then callback (there is no
\* rejection callback and the try block has ended long before).
OutlineSettles(t, r) ==
    LET p == tasks[t].panel
        stop == Post(p, t, "stopSpinner", Undef, Undef, Undef)
    IN  /\ requests' = Settle(t, r)
        /\ IF r.kind = "reject"
           THEN /\ posts' = posts \cup {stop}
                /\ tasks' = [tasks EXCEPT ![t].pc = "done", ![t].resp = r]
           ELSE IF isError(r)
           THEN /\ posts' = posts \cup {stop}
                /\ tasks' = [tasks EXCEPT ![t].pc = "popup", ![t].resp = r]
           ELSE /\ posts' = posts \cup {stop, Post(p, t, "outline", r.playbook, r.outline,
                                                  r.generationId)}
                /\ tasks' = [tasks EXCEPT ![t].pc = "done", ![t].resp = r]
        /\ UNCHANGED <<wizardId, currentPage, panels, feedback, errors,
                       suggestionDetails, nMsgs>>

\* playbookGenerationRequest settles with r, for a `generateCode` message.
GenerateCodeSettles(t, r) ==
    LET p == tasks[t].panel
        m == tasks[t].msg
        stop == Post(p, t, "stopSpinner", Undef, Undef, Undef)
    IN  /\ requests' = Settle(t, r)
        /\ tasks' = [tasks EXCEPT ![t].pc = "done", ![t].resp = r]
        /\ IF GenerateCodeBreaks(r)
           THEN /\ errors' = errors \cup
                        {Err(t, IF r.kind = "reject" THEN <<r.message>> ELSE ErrorMessageOf(r))}
                /\ posts' = posts \cup {stop}
                /\ UNCHANGED suggestionDetails
           ELSE /\ posts' = posts \cup {stop, Post(p, t, "playbook", r.playbook, m.outline,
                                                  r.generationId)}
                /\ suggestionDetails' = contentMatch(r.generationId, r.playbook)
                /\ UNCHANGED errors
        /\ UNCHANGED <<wizardId, currentPage, panels, feedback, nMsgs>>

RequestSettles(t) ==
    /\ At(t, "message", "req")
    /\ \E r \in Responses :
         IF tasks[t].msg.command = "outline"
         THEN OutlineSettles(t, r)
         ELSE GenerateCodeSettles(t, r)
    /\ UNCHANGED bootVars

\* `await oneClickTrialProvider.showPopup(response)` settles with shown.
PopupSettles(t) ==
    /\ At(t, "message", "popup")
    /\ \E shown \in BOOLEAN :
         errors' = IF shown THEN errors
                   ELSE errors \cup {Err(t, ErrorMessageOf(tasks[t].resp))}
    /\ tasks' = [tasks EXCEPT ![t].pc = "done"]
    /\ UNCHANGED <<wizardId, currentPage, panels, feedback, posts, requests,
                   suggestionDetails, nMsgs>>
    /\ UNCHANGED bootVars

\* `await openNewPlaybookEditor(playbook)` settles: the editor is shown, or
\* opening it failed and the handler ends with that exception; otherwise
\* sendActionEvent(CLOSE_ACCEPT) runs up to the next await.
EditorSettles(t) ==
    /\ At(t, "message", "editor")
    /\ \E opened \in BOOLEAN, throws \in BOOLEAN :
         IF opened
         THEN /\ throws => wizardId # NoId
              /\ SetG(sendActionEvent(G, "CLOSE_ACCEPT", NoPage, throws))
              /\ tasks' = [tasks EXCEPT ![t].pc = "acc"]
         ELSE /\ throws = FALSE
              /\ tasks' = [tasks EXCEPT ![t].pc = "done"]
              /\ UNCHANGED <<wizardId, currentPage, feedback, errors>>
    /\ UNCHANGED <<panels, posts, requests, suggestionDetails, nMsgs>>
    /\ UNCHANGED bootVars

\* `await sendActionEvent(CLOSE_ACCEPT)` settles: wizardId = undefined and
\* panel.dispose(), which runs the onDidDispose handler up to its await unless
\* the panel is disposed already.
OpenEditorResume(t) ==
    /\ At(t, "message", "acc")
    /\ LET p == tasks[t].panel
           g == [G EXCEPT !.wizardId = NoId]
       IN  IF panels[p] = "open"
           THEN /\ panels' = [panels EXCEPT ![p] = "disposed"]
                /\ SetG(sendActionEvent(g, "CLOSE_CANCEL", NoPage, FALSE))
                /\ tasks' = [tasks EXCEPT ![t].pc = "done",
                                          ![DisposeId(p)] = Task("dispose", p, NoMsg, "dsp")]
           ELSE /\ SetG(g)
                /\ tasks' = [tasks EXCEPT ![t].pc = "done"]
                /\ UNCHANGED panels
    /\ UNCHANGED <<posts, requests, suggestionDetails, nMsgs>>
    /\ UNCHANGED bootVars

\* The "Are you sure?" dialog of `resetOutline` settles with the button chosen.
DialogSettles(t) ==
    /\ At(t, "message", "dialog")
    /\ \E value \in {"Ok", Undef} :
         posts' = IF value = "Ok"
                  THEN posts \cup {Post(tasks[t].panel, t, "resetOutline", Undef, Undef, Undef)}
                  ELSE posts
    /\ tasks' = [tasks EXCEPT ![t].pc = "done"]
    /\ UNCHANGED <<wizardId, currentPage, panels, feedback, errors, requests,
                   suggestionDetails, nMsgs>>
    /\ UNCHANGED bootVars

Next ==
    \/ \E i \in 1..MaxPanels : showPlaybookGenerationPage(i)
    \/ \E p \in 1..MaxPanels : UserClose(p)
    \/ \E t \in TaskIds : DisposeResume(t)
    \/ \E p \in 1..MaxPanels, m \in Messages : Receive(p, m)
    \/ \E t \in TaskIds : RequestSettles(t)
    \/ \E t \in TaskIds : PopupSettles(t)
    \/ \E t \in TaskIds : EditorSettles(t)
    \/ \E t \in TaskIds : OpenEditorResume(t)
    \/ \E t \in TaskIds : DialogSettles(t)

Spec == Init /\ [][Next]_vars

\* ============================================================== the claims
IsClose(e) == e.action \in {"CLOSE_ACCEPT", "CLOSE_CANCEL"}
Pending == {q \in requests : q.status = "pending"}
MessageTasks == {t \in TaskIds : tasks[t].kind = "message"}
Failed(r) == r.kind \in {"error", "reject"}

\* C1: whenever a panel opened by showPlaybookGenerationPage is still open,
\* wizardId is defined.
C1_WizardIdSetWhileOpen ==
    (\E p \in DOMAIN panels : panels[p] = "open") => wizardId # NoId

C3_FailureSurfaced ==
    \A t \in MessageTasks :
        (tasks[t].pc = "done" /\ Failed(tasks[t].resp)) =>
            \E e \in errors :
                /\ e.task = t
                /\ e.text = IF tasks[t].resp.kind = "reject"
                            THEN <<tasks[t].resp.message>>
                            ELSE ErrorMessageOf(tasks[t].resp)

\* C4: in the state reached when an onDidDispose handler finishes, wizardId
\* and currentPage are both undefined.
C4_ResetOnDispose ==
    [][\A t \in TaskIds :
          (At(t, "dispose", "dsp") /\ tasks'[t].pc = "done") =>
              (wizardId' = NoId /\ currentPage' = NoPage)]_vars

\* C5: a message whose command is none of the five named kinds leaves wizardId
\* and currentPage unchanged, posts nothing, starts no request, sends no
\* feedback event and does not dispose the panel, when delivered and later.
C5_UnknownCommandIgnored ==
    /\ [](\A t \in MessageTasks :
            tasks[t].msg.command \notin Commands =>
                /\ tasks[t].pc = "done"
                /\ \A q \in posts : q.task # t
                /\ \A q \in requests : q.task # t
                /\ \A q \in errors : q.task # t)
    /\ [][(nMsgs' = nMsgs + 1 /\ tasks'[MsgId(nMsgs')].msg.command \notin Commands) =>
            UNCHANGED <<wizardId, currentPage, panels, feedback, posts, errors,
                        requests, suggestionDetails>>]_vars

C5_UnknownCommandDelivered ==
    \E t \in MessageTasks : tasks[t].msg.command \notin Commands

\* C7: for every wizard identifier at most one CLOSE event is sent, and the
\* disposal triggered by the `openEditor` handler sends no event.
C7_OneCloseEvent ==
    /\ [](\A w \in 1..MaxPanels :
            Cardinality({i \in DOMAIN feedback :
                           feedback[i].wizardId = w /\ IsClose(feedback[i])}) <= 1)
    /\ [][\A t \in TaskIds :
            (At(t, "message", "acc") /\ tasks'[t].pc = "done") => feedback' = feedback]_vars

\* C8: a call of showPlaybookGenerationPage by a user who is not authenticated
\* shows the log-in error and creates no panel, leaves wizardId and
\* currentPage unchanged and sends no feedback event.
C8_AuthenticationGate ==
    [][\A i \in 1..MaxPanels :
          (tasks[ShowId(i)].kind = "idle" /\ tasks'[ShowId(i)].kind = "show"
             /\ tasks'[ShowId(i)].resp.kind = "unauthenticated") =>
              /\ Err(ShowId(i), <<LOGIN_ERROR>>) \in errors'
              /\ tasks'[ShowId(i)].pc = "done"
              /\ tasks'[ShowId(i)].panel = 0
              /\ UNCHANGED <<wizardId, currentPage, panels, feedback, posts>>]_vars

C8_UnauthenticatedCall ==
    \E i \in 1..MaxPanels :
        tasks[ShowId(i)].kind = "show" /\ tasks[ShowId(i)].resp.kind = "unauthenticated"

\* C9: a `generateCode` message without a playbook whose request fails posts no
\* `playbook` message and leaves suggestionDetails unchanged; a `playbook`
\* message and suggestionDetails only ever carry a playbook taken from the
\* message or from a response that is no error.
FromMessage(t, pb, g) ==
    /\ ~Falsy(tasks[t].msg.playbook)
    /\ pb = tasks[t].msg.playbook /\ g = tasks[t].msg.generationId
FromResponse(t, pb, g) ==
    /\ Falsy(tasks[t].msg.playbook) /\ tasks[t].resp.kind = "ok"
    /\ pb = tasks[t].resp.playbook /\ g = tasks[t].resp.generationId
GenerateCodeTasks == {t \in MessageTasks : tasks[t].msg.command = "generateCode"}

C9_FailedGenerationPostsNothing ==
    /\ [](\A q \in posts : q.command = "playbook" =>
            /\ q.task \in GenerateCodeTasks
            /\ FromMessage(q.task, q.playbook, q.generationId)
                 \/ FromResponse(q.task, q.playbook, q.generationId))
    /\ [](\A k \in DOMAIN suggestionDetails : \E t \in GenerateCodeTasks :
            LET d == suggestionDetails[k]
            IN  FromMessage(t, d.suggestion, d.suggestionId)
                  \/ FromResponse(t, d.suggestion, d.suggestionId))
    /\ [][\A t \in TaskIds :
            (At(t, "message", "req") /\ tasks[t].msg.command = "generateCode"
               /\ Failed(tasks'[t].resp)) =>
                /\ UNCHANGED suggestionDetails
                /\ \A q \in posts' \ posts : q.command = "stopSpinner"]_vars

C9_GenerationFailed ==
    \E t \in GenerateCodeTasks :
        Falsy(tasks[t].msg.playbook) /\ tasks[t].pc = "done" /\ isError(tasks[t].resp)

\* C10: createOutline is true exactly when the request carries no outline; a
\* request of an `outline` message has no outline and createOutline true; a
\* request of a `generateCode` message whose outline is defined has
\* createOutline false; an `outline` message with a non-empty outline starts
\* no request and is echoed with its playbook, outline and generationId.
C10_CreateOutline ==
    /\ \A q \in requests :
         LET m == tasks[q.task].msg
         IN  /\ q.createOutline <=> q.outline = Undef
             /\ m.command = "outline" => (q.outline = Undef /\ q.createOutline)
             /\ m.command = "generateCode" =>
                  (q.outline = m.outline /\ (m.outline # Undef => ~q.createOutline))
    /\ \A t \in MessageTasks :
         LET m == tasks[t].msg
         IN  (m.command = "outline" /\ ~Falsy(m.outline)) =>
               /\ \A q \in requests : q.task # t
               /\ {q \in posts : q.task = t} =
                    {Post(tasks[t].panel, t, "outline", m.playbook, m.outline, m.generationId)}

C10_EmptyOutlineRequested ==
    /\ \E q \in requests : q.outline = Empty /\ ~q.createOutline
    /\ \E t \in MessageTasks :
         tasks[t].msg.command = "outline" /\ ~Falsy(tasks[t].msg.outline)

\* C11: the fromPage of every feedback event is the toPage of the event sent
\* before it (undefined for the first), currentPage is the toPage of the last
\* event sent, and a call of sendActionEvent while wizardId is undefined sends
\* nothing and leaves currentPage unchanged.
LastToPage(fb) == IF fb = << >> THEN NoPage ELSE fb[Len(fb)].toPage
CallsSendActionEvent ==
    \/ \E p \in DOMAIN panels : panels[p] = "open" /\ panels'[p] = "disposed"
    \/ nMsgs' = nMsgs + 1 /\ tasks'[MsgId(nMsgs')].msg.command = "transition"
    \/ \E t \in TaskIds : At(t, "message", "editor") /\ tasks'[t].pc = "acc"

C11_PageChain ==
    /\ [](\A i \in DOMAIN feedback :
            feedback[i].fromPage = LastToPage(SubSeq(feedback, 1, i - 1)))
    /\ [](currentPage = LastToPage(feedback))
    /\ [][(CallsSendActionEvent /\ wizardId = NoId) =>
            UNCHANGED <<feedback, currentPage>>]_vars

C11_ChainedAndSkipped ==
    /\ Len(feedback) >= 2 /\ feedback[2].fromPage = 1
    /\ wizardId = NoId
    /\ \E t \in MessageTasks : tasks[t].msg.command = "transition"
    /\ \A i \in DOMAIN feedback : feedback[i].action # "TRANSITION"

\* C12: for every wizard identifier generated, the first feedback event that
\* carries it is OPEN with toPage 1, and no event carries it after its CLOSE
\* event.
EventsOf(w) == {i \in DOMAIN feedback : feedback[i].wizardId = w}
C12_OpenFirstCloseLast ==
    \A w \in DOMAIN panels :
        /\ EventsOf(w) # {}
        /\ \A i \in EventsOf(w) :
             /\ (\A j \in EventsOf(w) : i <= j) =>
                  (feedback[i].action = "OPEN" /\ feedback[i].toPage = 1)
             /\ IsClose(feedback[i]) => \A j \in EventsOf(w) : j <= i

\* ================================================== the bootstrap script
\* The blocks of the script, in the order it runs them.
BootSteps ==
    << "setup", "asdf", "apt", "git", "podmanMac", "windows", "wsl", "path", "fs",
       "gh", "npmWsl", "venv", "pip", "ciAnsible", "ciLint", "ciHome",
       "toolAnsible", "toolLint", "npm", "yarn", "podman", "manifest", "nodeDeps",
       "end" >>

StepIndex(step) == CHOOSE i \in DOMAIN BootSteps : BootSteps[i] = step
After(step) == BootSteps[StepIndex(step) + 1]

\* Blocks that only run external commands: under `set -e` a failing command
\* ends the script with that command's status.
PlainSteps == {"setup", "asdf", "apt", "podmanMac", "path", "gh", "npmWsl", "ciHome",
               "npm", "yarn", "podman"}
ErrexitStatus == {1, 127}
ToolPaths == {"own", "other", "none"}

\* The exit status of each failure check.
SiteCode(site) ==
    CASE site = "git" -> 40
      [] site = "windows" -> 1
      [] site = "fs" -> 100
      [] site = "venv" -> 99
      [] site = "ciAnsible" -> 66
      [] site = "ciLint" -> 67
      [] site = "tools" -> 68

BootInit ==
    /\ WizardInit
    /\ bootPc = "setup"
    /\ exitCode = Running
    /\ bootEnv \in {[NoEnv EXCEPT !.CI = ci, !.OS = os] :
                      ci \in BOOLEAN, os \in {"linux", "darwin", "windows"}}
    /\ failing = {}
    /\ ran = {}

Goto(step) ==
    /\ bootPc' = step
    /\ ran' = ran \cup {bootPc}
    /\ UNCHANGED exitCode

\* `exit code`, or the end of the script under `set -e`.
Exit(code) ==
    /\ exitCode' = code
    /\ UNCHANGED <<bootPc, ran>>

Errexit == \E st \in ErrexitStatus : Exit(st)

PlainStep(step) ==
    /\ exitCode = Running /\ bootPc = step /\ step \in PlainSteps
    /\ Goto(After(step)) \/ Errexit
    /\ UNCHANGED <<bootEnv, failing, wizardVars>>

\* git config user.email / user.name; exit 40 unless CI, where they are set.
GitCheck ==
    /\ exitCode = Running /\ bootPc = "git"
    /\ \E email \in BOOLEAN, name \in BOOLEAN :
         LET GIT_NOT_CONFIGURED == ~email \/ ~name
         IN  IF GIT_NOT_CONFIGURED /\ ~bootEnv.CI
             THEN failing' = failing \cup {"git"} /\ Exit(SiteCode("git"))
             ELSE /\ UNCHANGED failing
                  /\ \/ Goto(After("git"))
                     \/ GIT_NOT_CONFIGURED /\ Errexit
    /\ UNCHANGED <<bootEnv, wizardVars>>

\* if [[ "${OS:-}" == "windows" ]]; then ... exit 1
WindowsCheck ==
    /\ exitCode = Running /\ bootPc = "windows"
    /\ IF bootEnv.OS = "windows"
       THEN failing' = failing \cup {"windows"} /\ Exit(SiteCode("windows"))
       ELSE UNCHANGED failing /\ Goto(After("windows"))
    /\ UNCHANGED <<bootEnv, wizardVars>>

\* grep -qi microsoft /proc/version: WSL=1
DetectWSL ==
    /\ exitCode = Running /\ bootPc = "wsl"
    /\ \E wsl \in BOOLEAN : bootEnv' = [bootEnv EXCEPT !.WSL = wsl]
    /\ Goto(After("wsl"))
    /\ UNCHANGED <<failing, wizardVars>>

\* python3 -c "... sys.exit(os.stat('.').st_mode & stat.S_IWOTH)" || exit 100
FilesystemCheck ==
    /\ exitCode = Running /\ bootPc = "fs"
    /\ \E worldWritable \in BOOLEAN :
         IF worldWritable
         THEN failing' = failing \cup {"fs"} /\ Exit(SiteCode("fs"))
         ELSE UNCHANGED failing /\ Goto(After("fs"))
    /\ UNCHANGED <<bootEnv, wizardVars>>

\* The virtualenv is created and activated, recreated once when python3 is
\* not its own, and the script exits 99 when it still is not.
VirtualenvCheck ==
    /\ exitCode = Running /\ bootPc = "venv"
    /\ \E first \in BOOLEAN, second \in BOOLEAN :
         IF ~first /\ ~second
         THEN failing' = failing \cup {"venv"} /\ Exit(SiteCode("venv"))
         ELSE /\ UNCHANGED failing
              /\ Goto(After("venv")) \/ Errexit
    /\ UNCHANGED <<bootEnv, wizardVars>>

\* pip installs the requirements, which is where ansible and ansible-lint
\* come from; what `command -v` finds afterwards is the environment's.
PipInstall ==
    /\ exitCode = Running /\ bootPc = "pip"
    /\ \/ /\ \E a \in ToolPaths, l \in ToolPaths :
               bootEnv' = [bootEnv EXCEPT !.ansible = a, !.lint = l]
          /\ Goto(After("pip"))
       \/ Errexit /\ UNCHANGED bootEnv
    /\ UNCHANGED <<failing, wizardVars>>

ToolPath(tool) == IF tool = "ansible" THEN bootEnv.ansible ELSE bootEnv.lint

\* On CI: command -v tool || { pipx uninstall tool || true; exit code unless
\* `which -a tool` prints exactly one line }.
CiToolCheck(step, tool, site) ==
    /\ exitCode = Running /\ bootPc = step
    /\ \E count \in 0..2 :
         IF bootEnv.CI /\ ToolPath(tool) = "none" /\ count # 1
         THEN failing' = failing \cup {site} /\ Exit(SiteCode(site))
         ELSE UNCHANGED failing /\ Goto(After(step))
    /\ UNCHANGED <<bootEnv, wizardVars>>

\* CMD=$(command -v $CMD 2>/dev/null): a simple assignment, so under `set -e`
\* the script ends with the status of `command -v` (1) when the tool is not
\* found; otherwise exit 68 unless the path is below $(pwd -P)/out.
ToolPathExit(path) ==
    IF path = "none" THEN Exit(1)
    ELSE IF path # "own" THEN Exit(SiteCode("tools"))
    ELSE FALSE

ToolPathCheck(step, tool) ==
    /\ exitCode = Running /\ bootPc = step
    /\ IF ToolPath(tool) # "own"
       THEN failing' = failing \cup {"tools"} /\ ToolPathExit(ToolPath(tool))
       ELSE UNCHANGED failing /\ Goto(After(step))
    /\ UNCHANGED <<bootEnv, wizardVars>>

\* cat >out/log/manifest.yml: a failing get_version inside the here-document
\* does not end the script.
WriteManifest ==
    /\ exitCode = Running /\ bootPc = "manifest"
    /\ Goto(After("manifest")) \/ Errexit
    /\ UNCHANGED <<bootEnv, failing, wizardVars>>

\* yarn install --immutable, or npm ci --no-audit
InstallNodeDeps ==
    /\ exitCode = Running /\ bootPc = "nodeDeps"
    /\ Goto(After("nodeDeps")) \/ Errexit
    /\ UNCHANGED <<bootEnv, failing, wizardVars>>

\* exit "${ERR}", and ERR is 0 throughout
Finish ==
    /\ exitCode = Running /\ bootPc = "end"
    /\ Exit(0)
    /\ UNCHANGED <<bootEnv, failing, wizardVars>>

BootNext ==
    \/ \E step \in PlainSteps : PlainStep(step)
    \/ GitCheck
    \/ WindowsCheck
    \/ DetectWSL
    \/ FilesystemCheck
    \/ VirtualenvCheck
    \/ PipInstall
    \/ CiToolCheck("ciAnsible", "ansible", "ciAnsible")
    \/ CiToolCheck("ciLint", "ansible-lint", "ciLint")
    \/ ToolPathCheck("toolAnsible", "ansible")
    \/ ToolPathCheck("toolLint", "ansible-lint")
    \/ WriteManifest
    \/ InstallNodeDeps
    \/ Finish

BootSpec == BootInit /\ [][BootNext]_vars

\* C6: the bootstrap script is fail-fast: when a failure check's condition
\* holds where the script reaches it, the script has exited with that check's
\* code, neither the manifest nor the node dependencies were written after it,
\* and the script exits 0 only when no failure check fired.
C6_FailFast ==
    /\ \A site \in failing :
         /\ exitCode = SiteCode(site)
         /\ ran \cap {"manifest", "nodeDeps"} = {}
    /\ exitCode = 0 => failing = {}

====
